---- MODULE Spec2Model ----
(***************************************************************************)
(* Model of connect-rs: the Connect client facade (src/src/lib.rs) and the *)
(* value types it decodes (src/src/models.rs).                             *)
(*                                                                         *)
(* Two specifications share the variables:                                 *)
(*   Spec       - one client call at a time: the call, the HTTP attempts   *)
(*                governed by the retry middleware installed in            *)
(*                Connect::new, and the classification of the final        *)
(*                response by the called method.                           *)
(*   SpecModels - the pure functions of models.rs: Connector::name and the *)
(*                untagged decoding of ConnectorOffset<P, O>.              *)
(***************************************************************************)
EXTENDS Integers, Sequences, FiniteSets, TLC

VARIABLES
    pc,         \* position of the call: "idle", "sending", "done"
    op,         \* the method called, "none" when idle
    args,       \* [name, expand_status, expand_info] of the call
    query,      \* query string built by connectors()
    attempts,   \* HTTP requests sent by this call so far
    elapsed,    \* seconds since the first attempt started
    last,       \* outcome of the last attempt
    result,     \* what the method returned
    bodyRead,   \* the method consumed the response body
    record,     \* offset record handed to the ConnectorOffset decoder
    pdec,       \* the caller's partition type P
    odec,       \* the caller's offset type O
    decoded,    \* result of ConnectorOffset::deserialize
    conn,       \* a Connector value
    connName    \* result of Connector::name

vars == <<pc, op, args, query, attempts, elapsed, last, result, bodyRead,
          record, pdec, odec, decoded, conn, connName>>

facadeVars == <<pc, op, args, query, attempts, elapsed, last, result, bodyRead>>
modelVars == <<record, pdec, odec, decoded, conn, connName>>

----------------------------------------------------------------------------
(* Bounds of the model *)

\* connector names a call may be given
NumNames == 1
\* longest time, in seconds, one HTTP attempt takes
MaxReqTime == 0
\* connector names a Connector value may hold
NumConnNames == 2

AllNames == <<"c1", "c2", "c3", "c4">>
Names == {AllNames[i] : i \in 1..NumNames}
ConnNames == {AllNames[i] : i \in 1..NumConnNames}

(* Retry policy configured in Connect::new *)
MinRetry == 1
MaxRetry == 5
Base == 2
TotalRetry == 20

----------------------------------------------------------------------------
(* HTTP outcomes *)

Codes == {200, 201, 202, 204, 400, 404, 408, 409, 429, 500, 503}

\* response bodies, by what serde_json makes of them: "valid" is JSON of the
\* type the called method decodes at the response's status, "null" the JSON
\* null, "empty" no bytes at all, "garbage" anything else
Bodies == {"valid", "null", "empty", "garbage"}

NoOutcome == [kind |-> "none", code |-> 0, body |-> "empty"]
Responses == [kind : {"resp"}, code : Codes, body : Bodies]
NetErrors == {[kind |-> "neterr_transient", code |-> 0, body |-> "empty"],
              [kind |-> "neterr_fatal", code |-> 0, body |-> "empty"]}
Outcomes == Responses \cup NetErrors

IsSuccess(code) == code >= 200 /\ code < 300
IsClientError(code) == code >= 400 /\ code < 500
IsServerError(code) == code >= 500 /\ code < 600

----------------------------------------------------------------------------
(* Results returned to the caller: Ok(value) or a ConnectError variant *)

Res(k, v, c) == [kind |-> k, val |-> v, code |-> c]
NoResult == Res("none", "", 0)
Ok(v) == Res("Ok", v, 0)
Err(k) == Res(k, "", 0)

ErrorKinds == {"BadRequest", "RebalancingInProgress", "Unknown", "InternalError",
               "InvalidExpandOption", "RequestError", "MiddlewareError",
               "ConnectorNotFound"}

----------------------------------------------------------------------------
(* Retry middleware installed by Connect::new *)

\* faulty variant of Transient: every response that is not a success is retried
TransientAnyFailure(o) ==
    \/ o.kind = "neterr_transient"
    \/ o.kind = "resp" /\ ~IsSuccess(o.code)

\* RetryTransientMiddleware::new_with_policy keeps the middleware's default
\* strategy: a response is retried when its status is 5xx, 408 or 429, a
\* request failure when it is a connection failure or a timeout; every other
\* outcome is handed to the caller as it is.
Transient(o) ==
    \/ o.kind = "neterr_transient"
    \/ /\ o.kind = "resp"
       /\ \/ IsServerError(o.code)
          \/ o.code = 408
          \/ o.code = 429

\* ExponentialBackoff: min(max_retry_interval, min_retry_interval * base^n)
Backoff(n) ==
    LET raw == MinRetry * (Base ^ n)
    IN  IF raw > MaxRetry THEN MaxRetry ELSE raw

\* Jitter::Bounded: a delay between min_retry_interval and the backoff
Delays(n) == MinRetry .. Backoff(n)

\* faulty variant of ShouldRetry: the ceiling itself still allows a retry
ShouldRetryAtCeiling(t) == t <= TotalRetry

\* build_with_total_retry_duration: retry as long as the time since the first
\* attempt started is below the total retry duration
ShouldRetry(t) == t < TotalRetry

----------------------------------------------------------------------------
(* Decoding of response bodies: response.json::<T>() *)

\* an Option<T> decodes the JSON null to None; the structs, maps and lists the
\* other methods decode do not accept it
Parses(type, body) ==
    CASE type = "OptionConnectorStatus" -> body \in {"valid", "null"}
      [] OTHER -> body = "valid"

\* the decoded value is named after its type
JsonValue(type, body) ==
    CASE type # "OptionConnectorStatus" -> type
      [] type = "OptionConnectorStatus" /\ body = "null" -> "None"
      [] OTHER -> "Some(ConnectorStatus)"

\* response.json().await?: a body that does not decode is a reqwest error
Json(type, body) ==
    IF Parses(type, body)
    THEN Ok(JsonValue(type, body))
    ELSE Err("RequestError")

Out(r, read) == [res |-> r, read |-> read]

----------------------------------------------------------------------------
(* Classification of the final response, per method *)

\* faulty variant of Expand: no expansion asked for gives a bare "?"
ExpandNeverEmpty(expand_status, expand_info) ==
    CASE expand_status /\ expand_info -> "?expand=status&expand=info"
      [] ~expand_status /\ expand_info -> "?expand=info"
      [] expand_status /\ ~expand_info -> "?expand=status"
      [] OTHER -> "?"

\* connectors(): the expand query string
Expand(expand_status, expand_info) ==
    CASE expand_status /\ expand_info -> "?expand=status&expand=info"
      [] ~expand_status /\ expand_info -> "?expand=info"
      [] expand_status /\ ~expand_info -> "?expand=status"
      [] OTHER -> ""

\* info, connector_names, connectors, connector_config, connector_offsets:
\* .send().await?.json().await? whatever the status is
ClassifyJson(o) == Out(Json("Data", o.body), TRUE)

\* faulty variant of ClassifyCreate: a 409 is decoded like a 400
ClassifyCreateConflictAsBadRequest(o) ==
    CASE o.code = 201 -> Out(Json("ConnectorInfo", o.body), TRUE)
      [] o.code \in {400, 409} ->
            Out(IF Parses("ErrorMessage", o.body)
                THEN Res("BadRequest", "ErrorMessage", 0)
                ELSE Err("RequestError"), TRUE)
      [] OTHER -> Out(Err("InternalError"), TRUE)

ClassifyCreate(o) ==
    CASE o.code = 201 -> Out(Json("ConnectorInfo", o.body), TRUE)
      [] o.code = 409 -> Out(Err("RebalancingInProgress"), FALSE)
      [] o.code = 400 ->
            Out(IF Parses("ErrorMessage", o.body)
                THEN Res("BadRequest", "ErrorMessage", 0)
                ELSE Err("RequestError"), TRUE)
      [] OTHER -> Out(Err("InternalError"), TRUE)

\* faulty variant of ClassifyRestart: the 404 arm is missing
ClassifyRestartNoNotFound(name, o) ==
    CASE o.code \in {204, 200} -> Out(Ok("None"), FALSE)
      [] o.code = 202 -> Out(Json("OptionConnectorStatus", o.body), TRUE)
      [] o.code = 409 -> Out(Err("RebalancingInProgress"), FALSE)
      [] o.code = 500 -> Out(Err("InternalError"), FALSE)
      [] OTHER -> Out(Res("Unknown", "", o.code), FALSE)

ClassifyRestart(name, o) ==
    CASE o.code \in {204, 200} -> Out(Ok("None"), FALSE)
      [] o.code = 202 -> Out(Json("OptionConnectorStatus", o.body), TRUE)
      [] o.code = 404 -> Out(Res("ConnectorNotFound", name, 0), FALSE)
      [] o.code = 409 -> Out(Err("RebalancingInProgress"), FALSE)
      [] o.code = 500 -> Out(Err("InternalError"), FALSE)
      [] OTHER -> Out(Res("Unknown", "", o.code), FALSE)

\* the Unknown of delete_connector carries the text "Unrecognizable error"
\* and no status code
ClassifyDelete(o) ==
    CASE o.code \in {204, 200} -> Out(Ok("unit"), FALSE)
      [] o.code = 409 -> Out(Err("RebalancingInProgress"), FALSE)
      [] OTHER -> Out(Err("Unknown"), FALSE)

\* pause_connector, resume_connector, stop_connector: .send().await?; Ok(())
ClassifyUnit(o) == Out(Ok("unit"), FALSE)

JsonOps == {"info", "connector_names", "connectors", "connector_config",
            "connector_offsets"}
UnitOps == {"pause_connector", "resume_connector", "stop_connector"}
StatusOps == {"create_connector", "restart_connector", "delete_connector"}
Ops == JsonOps \cup UnitOps \cup StatusOps

\* what the method returns for the outcome the middleware hands it; the ? after
\* send() turns a request failure into ConnectError::MiddlewareError
Classify(method, a, o) ==
    IF o.kind # "resp" THEN Out(Err("MiddlewareError"), FALSE)
    ELSE CASE method = "create_connector" -> ClassifyCreate(o)
           [] method = "restart_connector" -> ClassifyRestart(a.name, o)
           [] method = "delete_connector" -> ClassifyDelete(o)
           [] method \in UnitOps -> ClassifyUnit(o)
           [] OTHER -> ClassifyJson(o)

----------------------------------------------------------------------------
(* JSON values of an offset record (models.rs) *)

\* a field of a JSON object: missing, a string, or a non-negative integer
FieldKinds == {"missing", "str", "num"}

\* a JSON value in the place of a partition or an offset: absent (the record
\* has no such member), null, a string, or an object over the keys below
Val(t, kt, kp, off, cu) ==
    [t |-> t, kafka_topic |-> kt, kafka_partition |-> kp, offset |-> off,
     custom |-> cu]
Scalar(t) == Val(t, "missing", "missing", "missing", "missing")
Absent == Scalar("absent")

PartitionVals ==
    {Scalar(t) : t \in {"absent", "null", "str"}} \cup
    {Val("obj", kt, kp, "missing", cu) :
        kt \in FieldKinds, kp \in FieldKinds, cu \in FieldKinds}

OffsetVals ==
    {Scalar(t) : t \in {"absent", "null", "str"}} \cup
    {Val("obj", "missing", "missing", off, cu) :
        off \in FieldKinds, cu \in FieldKinds}

\* an offset record: a JSON object ("map"), a JSON array whose elements are
\* taken in field order ("seq"), or any other JSON value ("other")
Records ==
    {[kind |-> "map", partition |-> p, offset |-> o] :
        p \in PartitionVals, o \in OffsetVals} \cup
    {[kind |-> "seq", partition |-> p, offset |-> o] :
        p \in PartitionVals \ {Absent}, o \in OffsetVals} \cup
    {[kind |-> "seq", partition |-> Absent, offset |-> Absent],
     [kind |-> "other", partition |-> Absent, offset |-> Absent]}

\* the types a caller may pick for P and O: serde_json::Value,
\* HashMap<String, Value>, a struct {custom: u64}, an Option of that struct,
\* and String
Decoders == {"Value", "Map", "Custom", "OptionCustom", "String"}

\* P::deserialize / O::deserialize on the member; a missing member is
\* accepted by an Option only (serde's missing_field)
Accepts(dec, v) ==
    CASE dec = "Value" -> v.t # "absent"
      [] dec = "Map" -> v.t = "obj"
      [] dec = "Custom" -> v.t = "obj" /\ v.custom = "num"
      [] dec = "OptionCustom" ->
            \/ v.t \in {"absent", "null"}
            \/ v.t = "obj" /\ v.custom = "num"
      [] dec = "String" -> v.t = "str"
      [] OTHER -> FALSE

\* derived Deserialize of a struct from buffered content: a map is read by
\* key, unknown keys ignored; a sequence must hold every field
StructFrom(rec, okPartition, okOffset) ==
    CASE rec.kind = "map" -> okPartition /\ okOffset
      [] rec.kind = "seq" ->
            /\ rec.partition.t # "absent"
            /\ rec.offset.t # "absent"
            /\ okPartition
            /\ okOffset
      [] OTHER -> FALSE

SourceAccepts(rec, p, o) ==
    StructFrom(rec, Accepts(p, rec.partition), Accepts(o, rec.offset))

SinkPartitionAccepts(v) ==
    v.t = "obj" /\ v.kafka_topic = "str" /\ v.kafka_partition = "num"

SinkOffsetAccepts(v) == v.t = "obj" /\ v.offset = "str"

\* faulty variant of SinkAccepts: only the partition is looked at
SinkAcceptsPartitionOnly(rec) ==
    StructFrom(rec, SinkPartitionAccepts(rec.partition), TRUE)

SinkAccepts(rec) ==
    StructFrom(rec, SinkPartitionAccepts(rec.partition),
               SinkOffsetAccepts(rec.offset))

Decoded(variant, rec) ==
    [variant |-> variant, partition |-> rec.partition, offset |-> rec.offset]

\* faulty variant of DeserializeOffset: the variants are tried Sink first
DeserializeOffsetSinkFirst(rec, p, o) ==
    IF SinkAccepts(rec) THEN Decoded("Sink", rec)
    ELSE IF SourceAccepts(rec, p, o) THEN Decoded("Source", rec)
    ELSE Decoded("Error", rec)

\* impl Deserialize for ConnectorOffset: the untagged Inner tries Source, then
\* Sink, and fails when neither matches
DeserializeOffset(rec, p, o) ==
    IF SourceAccepts(rec, p, o) THEN Decoded("Source", rec)
    ELSE IF SinkAccepts(rec) THEN Decoded("Sink", rec)
    ELSE Decoded("Error", rec)

----------------------------------------------------------------------------
(* Connector and its name (models.rs) *)

Kinds == {"source", "sink"}
Statuses == {"PAUSED", "RUNNING", "RESTARTING", "FAILED", "UNASSIGNED", "STOPPED"}

NoInfo == [some |-> FALSE, name |-> "", kind |-> ""]
NoStatus == [some |-> FALSE, name |-> "", state |-> ""]
OptionInfo == {NoInfo} \cup [some : {TRUE}, name : ConnNames, kind : Kinds]
OptionStatus ==
    {NoStatus} \cup [some : {TRUE}, name : ConnNames, state : Statuses]
ConnectorValues == [info : OptionInfo, status : OptionStatus]

\* faulty variant of ConnectorName: the status is looked at first
ConnectorNameStatusFirst(c) ==
    IF c.status.some THEN c.status.name
    ELSE IF c.info.some THEN c.info.name
    ELSE "panic"

\* Connector::name; unwrap() of a None panics
ConnectorName(c) ==
    IF c.info.some THEN c.info.name
    ELSE IF c.status.some THEN c.status.name
    ELSE "panic"

----------------------------------------------------------------------------
(* State of the model types outside a decode *)

NoRecord == [kind |-> "none", partition |-> Absent, offset |-> Absent]
NoDecoded == [variant |-> "none", partition |-> Absent, offset |-> Absent]
NoConn == [info |-> NoInfo, status |-> NoStatus]

OffsetsIdle ==
    /\ record = NoRecord
    /\ pdec = "none"
    /\ odec = "none"
    /\ decoded = NoDecoded

NameIdle ==
    /\ conn = NoConn
    /\ connName = "unset"

ModelsIdle == OffsetsIdle /\ NameIdle

----------------------------------------------------------------------------
(* The client facade *)

NoArgs == [name |-> "", expand_status |-> FALSE, expand_info |-> FALSE]
Named(n) == [name |-> n, expand_status |-> FALSE, expand_info |-> FALSE]

FacadeIdle ==
    /\ pc = "idle"
    /\ op = "none"
    /\ args = NoArgs
    /\ query = ""
    /\ attempts = 0
    /\ elapsed = 0
    /\ last = NoOutcome
    /\ result = NoResult
    /\ bodyRead = FALSE

Init == FacadeIdle /\ ModelsIdle

\* a method builds its request and hands it to the middleware
Start(method, a, q) ==
    /\ pc = "idle"
    /\ pc' = "sending"
    /\ op' = method
    /\ args' = a
    /\ query' = q
    /\ attempts' = 0
    /\ elapsed' = 0
    /\ last' = NoOutcome
    /\ result' = NoResult
    /\ bodyRead' = FALSE
    /\ UNCHANGED modelVars

Info == Start("info", NoArgs, "")

ConnectorNames == Start("connector_names", NoArgs, "")

Connectors(expand_status, expand_info) ==
    LET a == [name |-> "", expand_status |-> expand_status,
              expand_info |-> expand_info]
        expand == Expand(expand_status, expand_info)
    IN  IF expand = ""
        THEN /\ pc = "idle"
             /\ pc' = "done"
             /\ op' = "connectors"
             /\ args' = a
             /\ query' = expand
             /\ attempts' = 0
             /\ elapsed' = 0
             /\ last' = NoOutcome
             /\ result' = Err("InvalidExpandOption")
             /\ bodyRead' = FALSE
             /\ UNCHANGED modelVars
        ELSE Start("connectors", a, expand)

CreateConnector(name) == Start("create_connector", Named(name), "")

RestartConnector(name) == Start("restart_connector", Named(name), "")

DeleteConnector(name) == Start("delete_connector", Named(name), "")

ConnectorConfig(name) == Start("connector_config", Named(name), "")

PauseConnector(name) == Start("pause_connector", Named(name), "")

ResumeConnector(name) == Start("resume_connector", Named(name), "")

StopConnector(name) == Start("stop_connector", Named(name), "")

ConnectorOffsets(name) == Start("connector_offsets", Named(name), "")

\* an attempt ends in a transient outcome while the retry policy still allows
\* a retry: the middleware drops the response unread, sleeps for the delay and
\* sends the request again
RetryAttempt(o, rt, d) ==
    /\ pc = "sending"
    /\ Transient(o)
    /\ ShouldRetry(elapsed + rt)
    /\ d \in Delays(attempts)
    /\ attempts' = attempts + 1
    /\ elapsed' = elapsed + rt + d
    /\ last' = [o EXCEPT !.body = "empty"]
    /\ UNCHANGED <<pc, op, args, query, result, bodyRead>>
    /\ UNCHANGED modelVars

\* an attempt ends in an outcome the middleware hands back: the method
\* classifies it and returns
FinalAttempt(o, rt) ==
    /\ pc = "sending"
    /\ ~(Transient(o) /\ ShouldRetry(elapsed + rt))
    /\ attempts' = attempts + 1
    /\ elapsed' = elapsed + rt
    /\ last' = o
    /\ result' = Classify(op, args, o).res
    /\ bodyRead' = Classify(op, args, o).read
    /\ pc' = "done"
    /\ UNCHANGED <<op, args, query>>
    /\ UNCHANGED modelVars

\* the caller has its result; the client keeps nothing of the call
Return ==
    /\ pc = "done"
    /\ pc' = "idle"
    /\ op' = "none"
    /\ args' = NoArgs
    /\ query' = ""
    /\ attempts' = 0
    /\ elapsed' = 0
    /\ last' = NoOutcome
    /\ result' = NoResult
    /\ bodyRead' = FALSE
    /\ UNCHANGED modelVars

Next ==
    \/ Info
    \/ ConnectorNames
    \/ \E es \in BOOLEAN, ei \in BOOLEAN : Connectors(es, ei)
    \/ \E n \in Names : CreateConnector(n)
    \/ \E n \in Names : RestartConnector(n)
    \/ \E n \in Names : DeleteConnector(n)
    \/ \E n \in Names : ConnectorConfig(n)
    \/ \E n \in Names : PauseConnector(n)
    \/ \E n \in Names : ResumeConnector(n)
    \/ \E n \in Names : StopConnector(n)
    \/ \E n \in Names : ConnectorOffsets(n)
    \/ \E o \in Outcomes, rt \in 0..MaxReqTime, d \in MinRetry..MaxRetry :
          RetryAttempt(o, rt, d)
    \/ \E o \in Outcomes, rt \in 0..MaxReqTime : FinalAttempt(o, rt)
    \/ Return

Spec == Init /\ [][Next]_vars

----------------------------------------------------------------------------
(* Decoding of one offset record *)

InitOffsets ==
    /\ FacadeIdle
    /\ NameIdle
    /\ record \in Records
    /\ pdec \in Decoders
    /\ odec \in Decoders
    /\ decoded = NoDecoded

Deserialize ==
    /\ decoded.variant = "none"
    /\ decoded' = DeserializeOffset(record, pdec, odec)
    /\ UNCHANGED <<record, pdec, odec, conn, connName>>
    /\ UNCHANGED facadeVars

NextOffsets == Deserialize

SpecOffsets == InitOffsets /\ [][NextOffsets]_vars

----------------------------------------------------------------------------
(* Connector::name *)

InitName ==
    /\ FacadeIdle
    /\ OffsetsIdle
    /\ conn \in ConnectorValues
    /\ connName = "unset"

Name ==
    /\ connName = "unset"
    /\ connName' = ConnectorName(conn)
    /\ UNCHANGED <<record, pdec, odec, decoded, conn>>
    /\ UNCHANGED facadeVars

NextName == Name

SpecName == InitName /\ [][NextName]_vars

----------------------------------------------------------------------------
(* Properties *)

Done == pc = "done"
FinalResponse == Done /\ last.kind = "resp"

\* C1: connectors(expand_status = false, expand_info = false) returns
\* InvalidExpandOption at once: the call is never in flight, no HTTP attempt
\* is made for it and no outcome is ever received.
C1_NoExpandNoRequest ==
    (op = "connectors" /\ ~args.expand_status /\ ~args.expand_info) =>
        /\ pc = "done"
        /\ result = Err("InvalidExpandOption")
        /\ attempts = 0
        /\ last = NoOutcome
        /\ query = ""

C1_Witness ==
    /\ Done
    /\ op = "connectors"
    /\ ~args.expand_status
    /\ ~args.expand_info
    /\ result.kind = "InvalidExpandOption"

\* the status codes the classification table lists for a method
Listed(method) ==
    CASE method = "create_connector" -> {201, 400, 409, 500}
      [] method = "restart_connector" -> {200, 204, 202, 404, 409, 500}
      [] method = "delete_connector" -> {200, 204, 409}
      [] OTHER -> {}

\* C2: for create_connector, restart_connector and delete_connector a final
\* status code the table does not list gives an Unknown error that carries
\* the raw status code.
C2_UnlistedIsUnknown ==
    (FinalResponse /\ op \in StatusOps /\ last.code \notin Listed(op)) =>
        result = Res("Unknown", "", last.code)

\* C3: pause_connector, resume_connector and stop_connector return Ok only
\* for a success status and an Unknown error for every other final status.
C3_UnitOpsPropagateStatus ==
    (FinalResponse /\ op \in UnitOps) =>
        IF IsSuccess(last.code)
        THEN result.kind = "Ok"
        ELSE result.kind = "Unknown"

\* C4 as stated: no 4xx response is ever followed by another attempt.
C4_No4xxRetried ==
    pc = "sending" => ~(last.kind = "resp" /\ IsClientError(last.code))

\* C4: a 400, and every 4xx other than 408 and 429, is never followed by
\* another attempt: when the first attempt returns it, exactly one attempt is
\* made and the method returns its result for that response.
C4_NoRetryOfClientError ==
    LET fatal == /\ last.kind = "resp"
                 /\ IsClientError(last.code)
                 /\ last.code \notin {408, 429}
    IN  /\ pc = "sending" => ~fatal
        /\ (Done /\ attempts = 1 /\ fatal) =>
               result = Classify(op, args, last).res

C4_Witness ==
    /\ Done
    /\ attempts = 1
    /\ last.kind = "resp"
    /\ last.code = 400
    /\ op = "create_connector"
    /\ result.kind = "BadRequest"

\* C5 as stated: a success after transient failures is returned, and a
\* transient failure that ends the retrying gives a RetryExhausted error.
C5_ExhaustedIsRetryExhausted ==
    /\ (FinalResponse /\ IsSuccess(last.code)) =>
           result = Classify(op, args, last).res
    /\ (Done /\ Transient(last)) => result.kind = "RetryExhausted"

\* C5: a transient failure is retried as long as the time since the first
\* attempt is below the total retry duration, so an attempt never starts
\* later than that duration plus the longest delay; a success after
\* transient failures gives the method's result for the success response;
\* a transient failure is final only at or past the ceiling, and the caller
\* then gets the method's own result for that last failure, one of the
\* ConnectError variants or Ok.
C5_RetryUntilCeiling ==
    /\ pc = "sending" => elapsed < TotalRetry + MaxRetry
    /\ (FinalResponse /\ IsSuccess(last.code)) =>
           /\ result = Classify(op, args, last).res
           /\ result.kind # "MiddlewareError"
    /\ (Done /\ Transient(last)) =>
           /\ elapsed >= TotalRetry
           /\ result = Classify(op, args, last).res
           /\ result.kind \in ErrorKinds \cup {"Ok"}

C5_Witness ==
    /\ Done
    /\ attempts > 1
    /\ Transient(last)
    /\ elapsed >= TotalRetry
    /\ op = "restart_connector"
    /\ result.kind = "InternalError"

\* C6: a final 409 makes create_connector, restart_connector and
\* delete_connector return RebalancingInProgress whatever the body is, and
\* the body is not read.
C6_ConflictIsRebalance ==
    (FinalResponse /\ op \in StatusOps /\ last.code = 409) =>
        /\ result = Err("RebalancingInProgress")
        /\ ~bodyRead

C6_Witness ==
    /\ FinalResponse
    /\ op = "create_connector"
    /\ last.code = 409
    /\ last.body = "garbage"
    /\ result.kind = "RebalancingInProgress"

\* C8: the result of restart_connector is the table's function of the final
\* status: 200 and 204 give Ok(None) with the body unread; 202 gives Ok of
\* the Option<ConnectorStatus> decoded from the body (None for a null), a
\* body that does not decode being a request error; 404 gives
\* ConnectorNotFound with the name passed to the call; 409 gives
\* RebalancingInProgress; 500 gives InternalError; any other code gives
\* Unknown with that code.
C8_RestartTable ==
    (FinalResponse /\ op = "restart_connector") =>
        CASE last.code \in {200, 204} -> result = Ok("None") /\ ~bodyRead
          [] last.code = 202 ->
                /\ bodyRead
                /\ last.body = "valid" => result = Ok("Some(ConnectorStatus)")
                /\ last.body = "null" => result = Ok("None")
                /\ last.body \in {"empty", "garbage"} =>
                       result = Err("RequestError")
          [] last.code = 404 ->
                result = Res("ConnectorNotFound", args.name, 0)
          [] last.code = 409 -> result = Err("RebalancingInProgress")
          [] last.code = 500 -> result = Err("InternalError")
          [] OTHER -> result = Res("Unknown", "", last.code)

C8_Witness ==
    /\ FinalResponse
    /\ op = "restart_connector"
    /\ last.code = 404
    /\ args.name \in Names
    /\ result = Res("ConnectorNotFound", args.name, 0)

\* the record of the fixed sink shape
FixedSinkShape ==
    /\ record.kind = "map"
    /\ record.partition = Val("obj", "str", "num", "missing", "missing")
    /\ record.offset = Val("obj", "missing", "missing", "str", "missing")

WasDecoded == decoded.variant # "none"

\* C7 as stated: a record of the fixed sink shape decodes to the Sink
\* variant for every choice of P and O.
C7_SinkShapeIsSink ==
    (WasDecoded /\ FixedSinkShape) => decoded.variant = "Sink"

\* C7: a record of the fixed sink shape always decodes; it decodes to the
\* Source variant when the caller's P accepts its partition and the caller's
\* O accepts its offset, and to the Sink variant otherwise.
C7_SinkShapeUnlessSourceAccepts ==
    (WasDecoded /\ FixedSinkShape) =>
        decoded.variant =
            IF Accepts(pdec, record.partition) /\ Accepts(odec, record.offset)
            THEN "Source"
            ELSE "Sink"

C7_Witness ==
    /\ FixedSinkShape
    /\ pdec = "Custom"
    /\ odec = "Custom"
    /\ decoded.variant = "Sink"

\* the record has both members where a struct is read from it
HasMembers ==
    \/ record.kind = "map"
    \/ /\ record.kind = "seq"
       /\ record.partition.t # "absent"
       /\ record.offset.t # "absent"

PAndOAccept ==
    /\ HasMembers
    /\ Accepts(pdec, record.partition)
    /\ Accepts(odec, record.offset)

MatchesSink ==
    /\ HasMembers
    /\ SinkPartitionAccepts(record.partition)
    /\ SinkOffsetAccepts(record.offset)

\* C10: one record is decoded Source first: the result is Source whenever P
\* and O accept the record's partition and offset, Sink only when they do not
\* and the record matches the sink structure, and a failure exactly when
\* neither holds; the result keeps the record's members.
C10_SourceThenSink ==
    WasDecoded =>
        /\ PAndOAccept => decoded.variant = "Source"
        /\ decoded.variant = "Sink" => (~PAndOAccept /\ MatchesSink)
        /\ decoded.variant = "Error" <=> (~PAndOAccept /\ ~MatchesSink)
        /\ decoded.partition = record.partition
        /\ decoded.offset = record.offset

C10_Witness ==
    /\ FixedSinkShape
    /\ pdec = "Map"
    /\ odec = "Value"
    /\ decoded.variant = "Source"

\* C9: name() returns info.name when info is present, also when status is
\* present with another name, status.name when only status is present, and
\* panics exactly when both are absent.
C9_NamePrefersInfo ==
    connName # "unset" =>
        /\ conn.info.some => connName = conn.info.name
        /\ (~conn.info.some /\ conn.status.some) => connName = conn.status.name
        /\ connName = "panic" <=> (~conn.info.some /\ ~conn.status.some)

C9_Witness ==
    /\ conn.info.some
    /\ conn.status.some
    /\ conn.info.name # conn.status.name
    /\ connName = conn.info.name

====
